---- MODULE Spec2Model ----
(***************************************************************************)
(* A model of the compressor repository: the universal natural-number      *)
(* codec (nat_encoder.py), the hash-indexed Lempel-Ziv matcher             *)
(* (hashed_lampel_ziv.py) and the static Huffman codec                     *)
(* (huffman_coding.py).  Bit buffers (bitarray) are sequences over {0,1}.  *)
(* Each component has its own specification; the variables of the other    *)
(* components stay at their idle values.                                   *)
(***************************************************************************)
EXTENDS Integers, Sequences, FiniteSets, TLC

VARIABLES
    pc,                   \* which call is in progress / what may happen next
    \* ---- nat_encoder.py
    bit_data,             \* the bitarray shared by encode_number / decode_number
    sent,                 \* the numbers encode_number has appended, in order
    received,             \* the numbers decode_number has returned, in order
    decode_arg,           \* the buffer as it was when decode_number was last called
    raised,               \* the exception the last call raised, or "none"
    cuts,                 \* how many trailing bits of the stream were lost
                          \* (both also used by the Huffman codec)
    \* ---- hashed_lampel_ziv.py
    data,                 \* the input bitarray (also huffman_encode's input)
    search_length, match_length, minimum_match_length,
    i,                    \* the loop index of hashed_lempel_ziv
    result,               \* the token list built so far
    hash_table,           \* key (k-gram bits) -> list of start positions
    starts,               \* the value of i when each token was emitted
    scans,                \* for each token: the candidate list the step scanned
    output,               \* the reconstruction of the token list
    \* ---- huffman_coding.py
    symbol_bits,
    tree_root,            \* huffman_encode's tree
    codes,                \* huffman_encode's code table
    compressed_data,      \* the frame huffman_encode returned
    decoded,              \* what huffman_decode returned for compressed_data
    trailing,             \* the bits appended to the frame before it is decoded
    input_table,          \* the table handed to build_huffman_tree
    serialized,           \* what serialize_tree returned for tree_root
    deserialized          \* what deserialize_tree returned for serialized

vars == <<pc, bit_data, sent, received, decode_arg, raised, cuts,
          data, search_length, match_length, minimum_match_length,
          i, result, hash_table, starts, scans, output,
          symbol_bits, tree_root, codes, compressed_data, decoded, trailing,
          input_table, serialized, deserialized>>

natBufVars == <<bit_data, sent, received, decode_arg>>
natVars    == <<natBufVars, raised, cuts>>
lzVars   == <<search_length, match_length, minimum_match_length,
              i, result, hash_table, starts, scans, output>>
treeVars == <<input_table, serialized, deserialized>>
huffVars == <<symbol_bits, tree_root, codes, compressed_data, decoded, trailing,
              treeVars>>

-----------------------------------------------------------------------------
(* Idle values: what a component's variables hold while another runs *)

NatIdle ==
    /\ bit_data = <<>> /\ sent = <<>> /\ received = <<>>
    /\ decode_arg = <<>> /\ raised = "none" /\ cuts = 0

LZIdle ==
    /\ search_length = 0 /\ match_length = 0 /\ minimum_match_length = 0
    /\ i = 0 /\ result = <<>> /\ hash_table = <<>>
    /\ starts = <<>> /\ scans = <<>> /\ output = <<>>

TreeIdle ==
    input_table = <<>> /\ serialized = <<>> /\ deserialized = <<>>

HuffIdle ==
    /\ symbol_bits = 0 /\ tree_root = <<>> /\ codes = <<>>
    /\ compressed_data = <<>> /\ decoded = <<>> /\ trailing = <<>>
    /\ TreeIdle

-----------------------------------------------------------------------------
(* Bounds of the model *)

\* encode_number is called at most MaxCodes times on one buffer
MaxCodes == 2
\* every number 0..MaxNum is an input of encode_number
MaxNum == 40
\* ... and so are 2^e - 1 and 2^e for 6 <= e <= MaxExp
MaxExp == 49
\* at most MaxCut trailing bits of a stream are lost before it is decoded
MaxCut == 2
\* Python integers are held as little-endian sequences of LimbBits-bit limbs
LimbBits == 16

-----------------------------------------------------------------------------
(* bitarray and int primitives *)

Max(a, b) == IF a > b THEN a ELSE b
Min(a, b) == IF a < b THEN a ELSE b

Zeros(n) == [k \in 1..n |-> 0]
Ones(n)  == [k \in 1..n |-> 1]

\* A Python slice bound, clamped as list slicing clamps it.
PyIndex(k, n) ==
    IF k < 0 THEN Max(k + n, 0) ELSE Min(k, n)

\* s[a:b]: never an error, short or empty when the bounds leave the sequence.
Slice(s, a, b) ==
    LET lo == PyIndex(a, Len(s))
        hi == PyIndex(b, Len(s))
    IN  IF lo < hi THEN SubSeq(s, lo + 1, hi) ELSE <<>>

\* del s[:b]
DelPrefix(s, b) == SubSeq(s, PyIndex(b, Len(s)) + 1, Len(s))

\* bin(n) without its prefix: the minimal big-endian digits, "0" for 0.
RECURSIVE NatToBits(_)
NatToBits(n) ==
    IF n < 2 THEN <<n>> ELSE NatToBits(n \div 2) \o <<n % 2>>

\* int(bits, 2) of a non-empty bit string.
RECURSIVE BitsToNat(_)
BitsToNat(bits) ==
    IF bits = <<>> THEN 0
    ELSE 2 * BitsToNat(SubSeq(bits, 1, Len(bits) - 1)) + bits[Len(bits)]

\* f'{n:0{width}b}': zero-padded on the left to width, longer when n needs it.
Format(n, width) ==
    LET b == NatToBits(n)
    IN  Zeros(width - Len(b)) \o b

\* bitarray.find(1): the index of the first set bit, -1 when there is none.
Find1(bits) ==
    IF \E k \in 1..Len(bits) : bits[k] = 1
    THEN (CHOOSE k \in 1..Len(bits) :
             bits[k] = 1 /\ \A m \in 1..(k - 1) : bits[m] = 0) - 1
    ELSE -1

\* The bits without their leading zeros.
StripZeros(bits) ==
    IF Find1(bits) = -1 THEN <<>> ELSE SubSeq(bits, Find1(bits) + 1, Len(bits))

-----------------------------------------------------------------------------
(* Python's unbounded int: a sign and little-endian limbs, no leading zero  *)
(* limb; zero has no limb.                                                  *)

Base == 2 ^ LimbBits

RECURSIVE NatLimbs(_)
NatLimbs(n) ==
    IF n = 0 THEN <<>> ELSE <<n % Base>> \o NatLimbs(n \div Base)

PyInt(n) == [neg |-> n < 0, limbs |-> NatLimbs(IF n < 0 THEN -n ELSE n)]

RECURSIVE LimbsToBits(_)
LimbsToBits(limbs) ==
    IF limbs = <<>> THEN <<>>
    ELSE LimbsToBits(Tail(limbs)) \o Format(Head(limbs), LimbBits)

RECURSIVE BitsToLimbs(_)
BitsToLimbs(bits) ==
    IF bits = <<>> THEN <<>>
    ELSE LET cut == Max(Len(bits) - LimbBits, 0)
         IN  <<BitsToNat(SubSeq(bits, cut + 1, Len(bits)))>>
                 \o BitsToLimbs(SubSeq(bits, 1, cut))

\* bitarray.util.int2ba(number): the minimal big-endian bits, '0' for 0.
int2ba(number) ==
    IF number.limbs = <<>> THEN <<0>> ELSE StripZeros(LimbsToBits(number.limbs))

\* bitarray.util.int2ba(number, length=length)
int2baLength(number, length) ==
    LET b == int2ba(number)
    IN  Zeros(length - Len(b)) \o b

\* bitarray.util.ba2int(bits) of a non-empty bitarray (unsigned, big-endian).
ba2int(bits) == [neg |-> FALSE, limbs |-> BitsToLimbs(StripZeros(bits))]

\* number < (1 << bits)
LessThanPow2(number, bits) ==
    number.neg \/ Len(int2ba(number)) <= bits

-----------------------------------------------------------------------------
(* nat_encoder.py *)

SMALL_NUMBER_BITS == 5

\* math.log2 works on IEEE doubles.  Below 2^Log2ExactBits the double nearest
\* to log2(number) still lies under the next integer; from there on, a number
\* whose leading Log2ExactBits + 1 bits are all set has a logarithm that rounds
\* up to its bit length.  (Exact for numbers of at most Log2ExactBits + 2 bits,
\* which is what the inputs below are kept to.)
Log2ExactBits == 48

\* math.floor(math.log2(number)), number > 0
FloorLog2(number) ==
    LET b == int2ba(number)
    IN  IF Len(b) > Log2ExactBits /\ \A k \in 1..(Log2ExactBits + 1) : b[k] = 1
        THEN Len(b)
        ELSE Len(b) - 1

\* The bits one call of encode_number appends for a non-negative number.
EncodedNumber(number) ==
    IF LessThanPow2(number, SMALL_NUMBER_BITS)
    THEN <<1>> \o int2baLength(number, SMALL_NUMBER_BITS)
    ELSE LET logn    == 1 + FloorLog2(number)
             loglogn == 1 + FloorLog2(PyInt(logn))
         IN  Zeros(loglogn) \o int2ba(PyInt(logn)) \o int2ba(number)

\* What decode_number does to a buffer: the exception it raises ("none" when
\* it returns), the buffer it leaves, and the value it returns.  A slice is
\* never an error; bit_data[0] of an empty buffer and ba2int of an empty
\* slice are.
DecodeNumber(buf) ==
    IF buf = <<>>
    THEN [raised |-> "IndexError", bit_data |-> buf, value |-> PyInt(0)]
    ELSE IF buf[1] = 1
    THEN LET number_bits == Slice(buf, 1, 1 + SMALL_NUMBER_BITS)
             rest        == DelPrefix(buf, 1 + SMALL_NUMBER_BITS)
         IN  IF number_bits = <<>>
             THEN [raised |-> "ValueError", bit_data |-> rest, value |-> PyInt(0)]
             ELSE [raised |-> "none", bit_data |-> rest,
                   value |-> ba2int(number_bits)]
    ELSE LET first_1_idx  == Find1(buf)
             loglogn      == first_1_idx
             logn_end_idx == first_1_idx + loglogn
             logn_bits    == Slice(buf, first_1_idx, logn_end_idx)
         IN  IF logn_bits = <<>>
             THEN [raised |-> "ValueError", bit_data |-> buf, value |-> PyInt(0)]
             ELSE LET logn      == BitsToNat(logn_bits)
                      n_end_idx == logn_end_idx + logn
                      num_bits  == Slice(buf, logn_end_idx, n_end_idx)
                  IN  IF num_bits = <<>>
                      THEN [raised |-> "ValueError", bit_data |-> buf,
                            value |-> PyInt(0)]
                      ELSE [raised |-> "none",
                            bit_data |-> DelPrefix(buf, n_end_idx),
                            value |-> ba2int(num_bits)]

\* The numbers handed to encode_number.
NumberInputs ==
    {PyInt(n) : n \in -1..MaxNum}
        \cup {ba2int(Ones(e)) : e \in 6..MaxExp}
        \cup {ba2int(<<1>> \o Zeros(e)) : e \in 6..MaxExp}

encode_number(number) ==
    /\ pc = "encode_number"
    /\ Len(sent) < MaxCodes
    /\ IF number.neg
       THEN /\ raised' = "ValueError"
            /\ UNCHANGED <<bit_data, sent>>
       ELSE /\ raised' = "none"
            /\ bit_data' = bit_data \o EncodedNumber(number)
            /\ sent' = Append(sent, number)
    /\ UNCHANGED <<pc, received, decode_arg, cuts>>
    /\ UNCHANGED <<data, lzVars, huffVars>>

\* The stream loses its last bit on the way to the decoder.
StreamCut ==
    /\ pc \in {"encode_number", "decode_number"}
    /\ received = <<>>
    /\ bit_data # <<>>
    /\ cuts < MaxCut
    /\ bit_data' = SubSeq(bit_data, 1, Len(bit_data) - 1)
    /\ cuts' = cuts + 1
    /\ pc' = "decode_number"
    /\ raised' = "none"
    /\ UNCHANGED <<sent, received, decode_arg>>
    /\ UNCHANGED <<data, lzVars, huffVars>>

decode_number ==
    /\ pc \in {"encode_number", "decode_number"}
    /\ Len(received) < Len(sent)
    /\ LET r == DecodeNumber(bit_data)
       IN  /\ decode_arg' = bit_data
           /\ bit_data' = r.bit_data
           /\ raised' = r.raised
           /\ received' = IF r.raised = "none"
                          THEN Append(received, r.value) ELSE received
           /\ pc' = IF r.raised = "none" THEN "decode_number" ELSE "nat_failed"
    /\ UNCHANGED <<sent, cuts>>
    /\ UNCHANGED <<data, lzVars, huffVars>>

InitNat ==
    /\ pc = "encode_number"
    /\ NatIdle /\ data = <<>> /\ LZIdle /\ HuffIdle

NextNat ==
    \/ \E number \in NumberInputs : encode_number(number)
    \/ StreamCut
    \/ decode_number

SpecNat == InitNat /\ [][NextNat]_vars

-----------------------------------------------------------------------------
(* hashed_lampel_ziv.py *)

\* inputs hold at most MaxBytes bytes ...
MaxBytes == 5
\* ... each one of NumByteValues byte values ('A', 'B', ...)
NumByteValues == 2
\* search_length ranges over 0..MaxSearch
MaxSearch == 3
\* match_length ranges over 1..MaxMatch
MaxMatch == 3
\* minimum_match_length ranges over 1..MaxMinMatch
MaxMinMatch == 2

\* byte_count = len(data) // 8
ByteCount(d) == Len(d) \div 8

\* data[k*8:(k + 1)*8]
ByteAt(d, k) == Slice(d, k * 8, (k + 1) * 8)

\* data[start*8:(start + k)*8].to01(): the k-gram used as the hash key
KGram(d, start, k) == Slice(d, start * 8, (start + k) * 8)

\* The condition of the run-length loop: the run may grow by one more byte.
MayExtendToLastByte(d, pos, j, max_length, length) ==
    /\ length < max_length
    /\ pos + length < ByteCount(d)
    /\ ByteAt(d, j + length) = ByteAt(d, pos + length)

MayExtend(d, pos, j, max_length, length) ==
    /\ length < max_length
    /\ pos + length < ByteCount(d) - 1
    /\ ByteAt(d, j + length) = ByteAt(d, pos + length)

RECURSIVE RunLengthFrom(_, _, _, _, _)
RunLengthFrom(d, pos, j, max_length, length) ==
    IF MayExtend(d, pos, j, max_length, length)
    THEN RunLengthFrom(d, pos, j, max_length, length + 1)
    ELSE length

\* The run length of candidate j for a match starting at pos.
RunLength(d, pos, j, max_length) == RunLengthFrom(d, pos, j, max_length, 0)

\* A window test that forgets the window's far edge.
InWindowUnbounded(pos, j, window) == j >= 0 /\ j < pos

\* j >= max(0, i - search_length) and j < i
InWindow(pos, j, window) == j >= Max(0, pos - window) /\ j < pos

\* length > best_length: only a strictly longer run replaces the best one.
ImprovesOrTies(length, best_length) == length >= best_length

Improves(length, best_length) == length > best_length

\* for j in hash_table[hash_key]: ... (the scan keeps the best match so far)
RECURSIVE ScanCandidates(_, _, _, _, _, _)
ScanCandidates(d, pos, window, max_length, candidates, best) ==
    IF candidates = <<>> THEN best
    ELSE LET j      == Head(candidates)
             length == RunLength(d, pos, j, max_length)
             next   == IF InWindow(pos, j, window) /\ Improves(length, best.length)
                       THEN [offset |-> pos - j, length |-> length]
                       ELSE best
         IN  ScanCandidates(d, pos, window, max_length, Tail(candidates), next)

NoMatch == [offset |-> 0, length |-> 0]

\* The list the step at pos scans: hash_table[hash_key], nothing when fewer
\* than k bytes remain or the key is not in the table.
Candidates(d, pos, k, table) ==
    IF pos + k <= ByteCount(d) /\ KGram(d, pos, k) \in DOMAIN table
    THEN table[KGram(d, pos, k)]
    ELSE <<>>

\* best_offset and best_length of the step at pos
FindMatch(d, pos, window, max_length, k, table) ==
    ScanCandidates(d, pos, window, max_length, Candidates(d, pos, k, table), NoMatch)

\* hash_table[key].append(start_pos), with a new list for a new key
Register(table, key, start_pos) ==
    [x \in DOMAIN table \cup {key} |->
        IF x = key
        THEN Append(IF key \in DOMAIN table THEN table[key] ELSE <<>>, start_pos)
        ELSE table[x]]

\* for start_pos in range(start_pos, stop): register the k-gram at start_pos
RECURSIVE RegisterRange(_, _, _, _, _)
RegisterRange(d, k, table, start_pos, stop) ==
    IF start_pos >= stop THEN table
    ELSE RegisterRange(d, k,
             IF start_pos + k <= ByteCount(d)
             THEN Register(table, KGram(d, start_pos, k), start_pos)
             ELSE table,
             start_pos + 1, stop)

UpdateHashTable(d, pos, k, table) ==
    RegisterRange(d, k, table, Max(0, pos - k + 1), pos + 1)

\* next_byte = data[(i + best_length)*8:(i + best_length + 1)*8]
NextByteAtStart(d, pos, best_length) == ByteAt(d, pos)

NextByte(d, pos, best_length) == ByteAt(d, pos + best_length)

RECURSIVE Flatten(_)
Flatten(bytes) ==
    IF bytes = <<>> THEN <<>> ELSE Format(Head(bytes), 8) \o Flatten(Tail(bytes))

ByteValues == {65 + v : v \in 0..(NumByteValues - 1)}

\* The byte-aligned buffers handed to hashed_lempel_ziv.
LZInputs ==
    {Flatten(bytes) : bytes \in UNION {[1..n -> ByteValues] : n \in 0..MaxBytes}}

\* One pass of the while loop: search, register, emit, advance.
LZStep ==
    /\ pc = "lz_loop"
    /\ i < ByteCount(data)
    /\ LET best == FindMatch(data, i, search_length, match_length,
                             minimum_match_length, hash_table)
       IN  /\ result' = Append(result,
                   <<best.offset, best.length, NextByte(data, i, best.length)>>)
           /\ i' = i + best.length + 1
    /\ hash_table' = UpdateHashTable(data, i, minimum_match_length, hash_table)
    /\ starts' = Append(starts, i)
    /\ scans' = Append(scans, Candidates(data, i, minimum_match_length, hash_table))
    /\ UNCHANGED <<pc, data, search_length, match_length, minimum_match_length, output>>
    /\ UNCHANGED <<natVars, huffVars>>

\* The loop ends and the token list is returned.
LZReturn ==
    /\ pc = "lz_loop"
    /\ ~(i < ByteCount(data))
    /\ pc' = "lz_done"
    /\ UNCHANGED <<data, lzVars, natVars, huffVars>>

\* The decoder: for each token, copy `length` bytes starting `offset` bytes
\* back from the end of the output, byte by byte (the copy may run into the
\* bytes it has just written), then append the literal.
RECURSIVE CopyRun(_, _, _)
CopyRun(out, src, n) ==
    IF n = 0 THEN out ELSE CopyRun(out \o ByteAt(out, src), src + 1, n - 1)

RECURSIVE Reconstruct(_, _)
Reconstruct(tokens, out) ==
    IF tokens = <<>> THEN out
    ELSE LET token  == Head(tokens)
             copied == CopyRun(out, ByteCount(out) - token[1], token[2])
         IN  Reconstruct(Tail(tokens), copied \o token[3])

LZReconstruct ==
    /\ pc = "lz_done"
    /\ output' = Reconstruct(result, <<>>)
    /\ pc' = "lz_decoded"
    /\ UNCHANGED <<data, search_length, match_length, minimum_match_length,
                   i, result, hash_table, starts, scans>>
    /\ UNCHANGED <<natVars, huffVars>>

InitLZ ==
    /\ pc = "lz_loop"
    /\ data \in LZInputs
    /\ search_length \in 0..MaxSearch
    /\ match_length \in 1..MaxMatch
    /\ minimum_match_length \in 1..MaxMinMatch
    /\ i = 0 /\ result = <<>> /\ hash_table = <<>>
    /\ starts = <<>> /\ scans = <<>> /\ output = <<>>
    /\ NatIdle /\ HuffIdle

NextLZ ==
    \/ LZStep
    \/ LZReturn
    \/ LZReconstruct

SpecLZ == InitLZ /\ [][NextLZ]_vars

-----------------------------------------------------------------------------
(* huffman_coding.py *)

LENGTH_FIELD_BITS == 17
TREE_SIZE_FIELD_BITS == 16
SYMBOL_BITS_FIELD == 6

\* the default symbol_bits of huffman_encode
DefaultSymbolBits == 8

\* every bit string of at most MaxDataBits bits is an input of huffman_encode
MaxDataBits == 8
\* at most MaxFrameCut trailing bits of a frame are lost before it is decoded
MaxFrameCut == 1
\* at most MaxTrailing bits are appended to a frame before it is decoded
MaxTrailing == 2
\* a frequency table holds at most MaxTableSymbols symbols, drawn from
\* 0..NumSymbolValues - 1, each counted 1..MaxCount times
MaxTableSymbols == 4
NumSymbolValues == 4
MaxCount == 2
\* symbol_bits ranges over 1..MaxSymbolBits (and the values named below)
MaxSymbolBits == 4

\* Optional values: None is the empty sequence, a value is a one-element one.
None == <<>>
Some(x) == <<x>>

HuffmanNode(symbol, frequency, left, right) ==
    [symbol |-> symbol, frequency |-> frequency, left |-> left, right |-> right]

\* HuffmanNode.__lt__
Lt(a, b) == a.frequency < b.frequency

\* HuffmanNode.is_leaf
IsLeaf(node) == node.left = None /\ node.right = None

\* int(chunk.to01(), 2) of a non-empty chunk: a Python int of any size
IntOfBits(bits) == ba2int(bits)

\* A symbol written without its leading zeros.
FormatIntUnpadded(number, width) == int2ba(number)

\* f'{symbol:0{symbol_bits}b}': zero-padded on the left, longer when the
\* symbol needs more bits
FormatInt(number, width) == int2baLength(number, width)

\* The symbol of each chunk data[i:i + symbol_bits], i in range(0, len, symbol_bits);
\* the last chunk may be shorter.
Symbols(d, sb) ==
    [c \in 1..((Len(d) + sb - 1) \div sb) |->
        IntOfBits(Slice(d, (c - 1) * sb, c * sb))]

\* build_frequency_table: frequency_counter[symbol_value] += 1 for every
\* chunk.  The dict keeps its keys in the order of their first insertion, so
\* the table is the sequence of <<symbol, count>> pairs ordered by the chunk
\* at which each symbol first occurs.
build_frequency_table(d, sb) ==
    LET symbols  == Symbols(d, sb)
        chunks   == 1..Len(symbols)
        firsts   == {k \in chunks : \A m \in 1..(k - 1) : symbols[m] # symbols[k]}
        place(j) == CHOOSE k \in firsts : Cardinality({m \in firsts : m < k}) = j - 1
    IN  [j \in 1..Cardinality(firsts) |->
            <<symbols[place(j)],
              Cardinality({m \in chunks : symbols[m] = symbols[place(j)]})>>]

\* heapq._siftdown(heap, startpos, pos), positions counted from 0
RECURSIVE SiftDown(_, _, _, _)
SiftDown(heap, startpos, pos, newitem) ==
    IF pos > startpos /\ Lt(newitem, heap[((pos - 1) \div 2) + 1])
    THEN SiftDown([heap EXCEPT ![pos + 1] = heap[((pos - 1) \div 2) + 1]],
                  startpos, (pos - 1) \div 2, newitem)
    ELSE [heap EXCEPT ![pos + 1] = newitem]

\* heapq.heappush
HeapPush(heap, item) ==
    SiftDown(Append(heap, item), 0, Len(heap), item)

\* the loop of heapq._siftup: the smaller child moves up until a leaf is hit
RECURSIVE SiftUpLoop(_, _)
SiftUpLoop(heap, pos) ==
    LET childpos == 2 * pos + 1
        rightpos == childpos + 1
        smaller  == IF rightpos < Len(heap)
                         /\ ~Lt(heap[childpos + 1], heap[rightpos + 1])
                    THEN rightpos ELSE childpos
    IN  IF childpos < Len(heap)
        THEN SiftUpLoop([heap EXCEPT ![pos + 1] = heap[smaller + 1]], smaller)
        ELSE <<heap, pos>>

\* heapq._siftup(heap, 0)
SiftUp(heap) ==
    LET newitem == heap[1]
        moved   == SiftUpLoop(heap, 0)
    IN  SiftDown(moved[1], 0, moved[2], newitem)

\* heapq.heappop: the item popped and the heap left
HeapPop(heap) ==
    LET lastelt == heap[Len(heap)]
        rest    == SubSeq(heap, 1, Len(heap) - 1)
    IN  IF rest # <<>>
        THEN [item |-> rest[1], heap |-> SiftUp([rest EXCEPT ![1] = lastelt])]
        ELSE [item |-> lastelt, heap |-> rest]

RECURSIVE PushLeaves(_, _)
PushLeaves(heap, table) ==
    IF table = <<>> THEN heap
    ELSE PushLeaves(
             HeapPush(heap, HuffmanNode(Some(Head(table)[1]), Head(table)[2], None, None)),
             Tail(table))

RECURSIVE MergeLowest(_)
MergeLowest(heap) ==
    IF Len(heap) > 1
    THEN LET first  == HeapPop(heap)
             second == HeapPop(first.heap)
             left   == first.item
             right  == second.item
             internal_node == HuffmanNode(None, left.frequency + right.frequency,
                                          Some(left), Some(right))
         IN  MergeLowest(HeapPush(second.heap, internal_node))
    ELSE heap

\* A builder that hangs a lone leaf under an internal root.
build_huffman_tree_wrapped(frequency_table) ==
    LET root == MergeLowest(PushLeaves(<<>>, frequency_table))[1]
    IN  IF IsLeaf(root)
        THEN HuffmanNode(None, root.frequency, Some(root), None)
        ELSE root

\* build_huffman_tree of a table with at least one symbol: heap[0]
build_huffman_tree(frequency_table) ==
    MergeLowest(PushLeaves(<<>>, frequency_table))[1]

\* codes[node.symbol] = code if code else "0"
LeafCode(code) == IF code # <<>> THEN code ELSE <<0>>

\* A traversal that extends the code with "0" on both edges.
RECURSIVE TraverseSameBit(_, _)
TraverseSameBit(node, code) ==
    IF IsLeaf(node)
    THEN [s \in {node.symbol[1]} |-> LeafCode(code)]
    ELSE LET lefts  == IF node.left # None
                       THEN TraverseSameBit(node.left[1], Append(code, 0)) ELSE <<>>
             rights == IF node.right # None
                       THEN TraverseSameBit(node.right[1], Append(code, 0)) ELSE <<>>
         IN  rights @@ lefts

\* traverse(node, code): the table after the traversal of node; a later
\* assignment to the same symbol replaces the earlier one
RECURSIVE Traverse(_, _)
Traverse(node, code) ==
    IF IsLeaf(node)
    THEN [s \in {node.symbol[1]} |-> LeafCode(code)]
    ELSE LET lefts  == IF node.left # None
                       THEN Traverse(node.left[1], Append(code, 0)) ELSE <<>>
             rights == IF node.right # None
                       THEN Traverse(node.right[1], Append(code, 1)) ELSE <<>>
         IN  rights @@ lefts

generate_huffman_codes(root) ==
    IF root = None THEN <<>> ELSE Traverse(root[1], <<>>)

RECURSIVE SerializeNode(_, _)
SerializeNode(node, sb) ==
    IF IsLeaf(node)
    THEN <<1>> \o FormatInt(node.symbol[1], sb)
    ELSE <<0>>
           \o (IF node.left # None THEN SerializeNode(node.left[1], sb) ELSE <<>>)
           \o (IF node.right # None THEN SerializeNode(node.right[1], sb) ELSE <<>>)

serialize_tree(root, sb) ==
    IF root = None THEN <<>> ELSE SerializeNode(root[1], sb)

\* deserialize_node(pos): the exception raised ("none" when it returns), the
\* node and the position after it.  data[pos] past the end is an IndexError,
\* int('', 2) of an empty symbol chunk a ValueError; a short chunk is read
\* as it is.
RECURSIVE DeserializeNode(_, _, _)
DeserializeNode(d, sb, pos) ==
    IF pos >= Len(d)
    THEN [raised |-> "IndexError", node |-> None, pos |-> pos]
    ELSE IF d[pos + 1] = 1
    THEN LET symbol_chunk == Slice(d, pos + 1, pos + 1 + sb)
         IN  IF symbol_chunk = <<>>
             THEN [raised |-> "ValueError", node |-> None, pos |-> pos]
             ELSE [raised |-> "none",
                   node |-> Some(HuffmanNode(Some(IntOfBits(symbol_chunk)), 0, None, None)),
                   pos |-> pos + 1 + sb]
    ELSE LET l == DeserializeNode(d, sb, pos + 1)
         IN  IF l.raised # "none" THEN l
             ELSE LET r == DeserializeNode(d, sb, l.pos)
                  IN  IF r.raised # "none" THEN r
                      ELSE [raised |-> "none",
                            node |-> Some(HuffmanNode(None, 0, l.node, r.node)),
                            pos |-> r.pos]

deserialize_tree(d, sb) ==
    IF Len(d) = 0
    THEN [raised |-> "none", node |-> None, pos |-> 0]
    ELSE DeserializeNode(d, sb, 0)

\* result.extend(codes[symbol_value]) for each chunk whose symbol has a code
\* (the codewords of chunks lo..hi, one half of the range after the other)
RECURSIVE EncodeSymbols(_, _, _, _)
EncodeSymbols(symbols, table, lo, hi) ==
    IF lo > hi THEN <<>>
    ELSE IF lo = hi
    THEN (IF symbols[lo] \in DOMAIN table THEN table[symbols[lo]] ELSE <<>>)
    ELSE LET mid == (lo + hi) \div 2
         IN  EncodeSymbols(symbols, table, lo, mid)
                 \o EncodeSymbols(symbols, table, mid + 1, hi)

\* huffman_encode of a non-empty buffer: the tree, the code table, the
\* exception raised ("none" when a frame is returned) and the frame.
HuffmanEncode(d, sb) ==
    LET freq_table      == build_frequency_table(d, sb)
        root            == Some(build_huffman_tree(freq_table))
        table           == generate_huffman_codes(root)
        serialized_tree == serialize_tree(root, sb)
        tree_size       == Len(serialized_tree)
        original_length_bytes == Len(d) \div 8
    IN  [tree_root |-> root,
         codes     |-> table,
         raised    |-> IF tree_size >= 2 ^ TREE_SIZE_FIELD_BITS
                       THEN "ValueError" ELSE "none",
         frame     |-> IF tree_size >= 2 ^ TREE_SIZE_FIELD_BITS THEN <<>>
                       ELSE Format(sb, SYMBOL_BITS_FIELD)
                              \o Format(tree_size, TREE_SIZE_FIELD_BITS)
                              \o serialized_tree
                              \o Format(original_length_bytes, LENGTH_FIELD_BITS)
                              \o EncodeSymbols(Symbols(d, sb), table,
                                               1, Len(Symbols(d, sb)))]

\* One pass of the body of `for bit in encoded_data`: follow the bit when
\* that child exists; at a leaf, append the symbol, stop when the original
\* length is reached, and go back to the root.  w.done is the break.
WalkStep(w, bit, root, sb, original_length_bits) ==
    LET current_node == w.current_node
        node == IF bit = 0 /\ current_node.left # None THEN current_node.left[1]
                ELSE IF bit = 1 /\ current_node.right # None THEN current_node.right[1]
                ELSE current_node
    IN  IF w.done THEN w
        ELSE IF IsLeaf(node)
        THEN [current_node |-> root,
              out  |-> w.out \o FormatInt(node.symbol[1], sb),
              done |-> Len(w.out) + Len(FormatInt(node.symbol[1], sb))
                           >= original_length_bits]
        ELSE [current_node |-> node, out |-> w.out, done |-> FALSE]

\* The loop over encoded_data[lo..hi], one half of the range after the other
RECURSIVE Walk(_, _, _, _, _, _, _)
Walk(w, encoded_data, lo, hi, root, sb, original_length_bits) ==
    IF lo > hi THEN w
    ELSE IF lo = hi
    THEN WalkStep(w, encoded_data[lo], root, sb, original_length_bits)
    ELSE LET mid  == (lo + hi) \div 2
             half == Walk(w, encoded_data, lo, mid, root, sb, original_length_bits)
         IN  IF half.done THEN half
             ELSE Walk(half, encoded_data, mid + 1, hi, root, sb,
                       original_length_bits)

\* huffman_decode: the exception raised ("none" when it returns) and the
\* buffer returned.  int(x.to01(), 2) of an empty slice is a ValueError.
HuffmanDecode(compressed) ==
    LET failed(kind)     == [raised |-> kind, value |-> <<>>]
        symbol_bits_data == Slice(compressed, 0, SYMBOL_BITS_FIELD)
        sb               == BitsToNat(symbol_bits_data)
        tree_start       == SYMBOL_BITS_FIELD + TREE_SIZE_FIELD_BITS
        tree_size_bits   == Slice(compressed, SYMBOL_BITS_FIELD, tree_start)
        tree_size        == BitsToNat(tree_size_bits)
        tree_end         == tree_start + tree_size
        tree             == deserialize_tree(Slice(compressed, tree_start, tree_end), sb)
        length_field     == Slice(compressed, tree_end, tree_end + LENGTH_FIELD_BITS)
        original_length_bits == BitsToNat(length_field) * 8
        encoded_data     == Slice(compressed, tree_end + LENGTH_FIELD_BITS,
                                  Len(compressed))
    IN  IF Len(compressed) = 0 THEN [raised |-> "none", value |-> <<>>]
        ELSE IF tree_size_bits = <<>> THEN failed("ValueError")
        ELSE IF tree.raised # "none" THEN failed(tree.raised)
        ELSE IF length_field = <<>> THEN failed("ValueError")
        ELSE IF tree.node = None THEN [raised |-> "none", value |-> <<>>]
        ELSE [raised |-> "none",
              value |-> Slice(Walk([current_node |-> tree.node[1], out |-> <<>>,
                                    done |-> FALSE],
                                   encoded_data, 1, Len(encoded_data), tree.node[1],
                                   sb, original_length_bits).out,
                              0, original_length_bits)]

BitStrings(n) == UNION {[1..k -> {0, 1}] : k \in 0..n}

\* The buffers handed to huffman_encode: every short bit string, and one
\* symbol of the first width that does not fit the symbol_bits field.
HuffmanInputs ==
    BitStrings(MaxDataBits) \cup {Zeros(2 ^ SYMBOL_BITS_FIELD)}

SymbolBitsInputs ==
    (1..MaxSymbolBits) \cup {DefaultSymbolBits, 2 ^ SYMBOL_BITS_FIELD}

huffman_encode ==
    /\ pc = "huffman_encode"
    /\ IF Len(data) = 0
       THEN /\ compressed_data' = <<>>
            /\ pc' = "huffman_decode"
            /\ UNCHANGED <<tree_root, codes, raised>>
       ELSE LET r == HuffmanEncode(data, symbol_bits)
            IN  /\ tree_root' = r.tree_root
                /\ codes' = r.codes
                /\ raised' = r.raised
                /\ compressed_data' = r.frame
                /\ pc' = IF r.raised = "none" THEN "huffman_decode" ELSE "huff_failed"
    /\ UNCHANGED <<data, symbol_bits, decoded, cuts, trailing>>
    /\ UNCHANGED <<natBufVars, lzVars, treeVars>>

\* The frame loses its last bit on the way to the decoder.
FrameCut ==
    /\ pc = "huffman_decode"
    /\ compressed_data # <<>>
    /\ trailing = <<>>
    /\ cuts < MaxFrameCut
    /\ compressed_data' = SubSeq(compressed_data, 1, Len(compressed_data) - 1)
    /\ cuts' = cuts + 1
    /\ UNCHANGED <<pc, data, symbol_bits, tree_root, codes, decoded, raised, trailing>>
    /\ UNCHANGED <<natBufVars, lzVars, treeVars>>

huffman_decode ==
    /\ pc = "huffman_decode"
    /\ LET r == HuffmanDecode(compressed_data)
       IN  /\ raised' = r.raised
           /\ decoded' = r.value
           /\ pc' = IF r.raised = "none" THEN "huff_done" ELSE "huff_failed"
    /\ UNCHANGED <<data, symbol_bits, tree_root, codes, compressed_data, cuts,
                   trailing>>
    /\ UNCHANGED <<natBufVars, lzVars, treeVars>>

InitHuff ==
    /\ pc = "huffman_encode"
    /\ data \in HuffmanInputs
    /\ symbol_bits \in SymbolBitsInputs
    /\ tree_root = None /\ codes = <<>>
    /\ compressed_data = <<>> /\ decoded = <<>> /\ trailing = <<>>
    /\ NatIdle /\ LZIdle /\ TreeIdle

NextHuff ==
    \/ huffman_encode
    \/ FrameCut
    \/ huffman_decode

SpecHuff == InitHuff /\ [][NextHuff]_vars

\* The frames of byte-aligned buffers, decoded with bits appended after them.

\* The non-empty buffers of whole bytes handed to huffman_encode: the short
\* ones, and one symbol of the first width that does not fit the symbol_bits
\* field, all bits clear or all bits set.
ByteAlignedInputs ==
    {d \in BitStrings(MaxDataBits) : d # <<>> /\ Len(d) % 8 = 0}
        \cup {Zeros(2 ^ SYMBOL_BITS_FIELD), Ones(2 ^ SYMBOL_BITS_FIELD)}

\* One more bit follows the frame huffman_decode is given.
FrameExtend(bit) ==
    /\ pc = "huffman_decode"
    /\ compressed_data # <<>>
    /\ cuts = 0
    /\ Len(trailing) < MaxTrailing
    /\ compressed_data' = Append(compressed_data, bit)
    /\ trailing' = Append(trailing, bit)
    /\ UNCHANGED <<pc, data, symbol_bits, tree_root, codes, decoded, raised, cuts>>
    /\ UNCHANGED <<natBufVars, lzVars, treeVars>>

InitHuffPad ==
    /\ pc = "huffman_encode"
    /\ data \in ByteAlignedInputs
    /\ symbol_bits \in SymbolBitsInputs
    /\ tree_root = None /\ codes = <<>>
    /\ compressed_data = <<>> /\ decoded = <<>> /\ trailing = <<>>
    /\ NatIdle /\ LZIdle /\ TreeIdle

NextHuffPad ==
    \/ huffman_encode
    \/ \E bit \in {0, 1} : FrameExtend(bit)
    \/ huffman_decode

SpecHuffPad == InitHuffPad /\ [][NextHuffPad]_vars

\* The tree functions called on a frequency table of their own.

SymbolValues == {PyInt(v) : v \in 0..(NumSymbolValues - 1)}

\* The frequency tables handed to build_huffman_tree: a dict keeps its keys
\* in insertion order, so a table is a sequence of <<symbol, count>> pairs
\* with no symbol twice.
FrequencyTables ==
    UNION {{t \in [1..k -> SymbolValues \X (1..MaxCount)] :
               \A a, b \in 1..k : a # b => t[a][1] # t[b][1]} :
           k \in 1..MaxTableSymbols}

\* The symbol widths that hold every symbol of the tables.
TreeSymbolBits ==
    {k \in (1..MaxSymbolBits) \cup {DefaultSymbolBits} : NumSymbolValues <= 2 ^ k}

BuildTree ==
    /\ pc = "build_huffman_tree"
    /\ tree_root' = Some(build_huffman_tree(input_table))
    /\ codes' = generate_huffman_codes(Some(build_huffman_tree(input_table)))
    /\ pc' = "serialize_tree"
    /\ UNCHANGED <<data, symbol_bits, compressed_data, decoded, trailing,
                   raised, cuts, treeVars>>
    /\ UNCHANGED <<natBufVars, lzVars>>

SerializeTree ==
    /\ pc = "serialize_tree"
    /\ serialized' = serialize_tree(tree_root, symbol_bits)
    /\ pc' = "deserialize_tree"
    /\ UNCHANGED <<data, symbol_bits, tree_root, codes, compressed_data, decoded,
                   trailing, raised, cuts, input_table, deserialized>>
    /\ UNCHANGED <<natBufVars, lzVars>>

DeserializeTree ==
    /\ pc = "deserialize_tree"
    /\ deserialized' = deserialize_tree(serialized, symbol_bits)
    /\ pc' = "tree_done"
    /\ UNCHANGED <<data, symbol_bits, tree_root, codes, compressed_data, decoded,
                   trailing, raised, cuts, input_table, serialized>>
    /\ UNCHANGED <<natBufVars, lzVars>>

InitTree ==
    /\ pc = "build_huffman_tree"
    /\ input_table \in FrequencyTables
    /\ symbol_bits \in TreeSymbolBits
    /\ data = <<>>
    /\ tree_root = None /\ codes = <<>>
    /\ compressed_data = <<>> /\ decoded = <<>> /\ trailing = <<>>
    /\ serialized = <<>> /\ deserialized = <<>>
    /\ NatIdle /\ LZIdle

NextTree ==
    \/ BuildTree
    \/ SerializeTree
    \/ DeserializeTree

SpecTree == InitTree /\ [][NextTree]_vars

-----------------------------------------------------------------------------
(* Claims about nat_encoder.py, checked under SpecNat *)

\* C3: for every sequence n1..nk (k >= 1) of non-negative integers, encoding
\* them in order into one empty buffer and then calling decode_number k times
\* returns n1..nk in order and leaves the buffer empty.
\* The buffer is the one the encoder wrote (no bit was lost); the k calls are
\* over when k numbers came back or a call raised.
C3_NumberRoundTrip ==
    (cuts = 0 /\ sent # <<>>
        /\ (pc = "nat_failed" \/ (pc = "decode_number" /\ Len(received) = Len(sent))))
    => (pc # "nat_failed" /\ received = sent /\ bit_data = <<>>)

\* The bit length of a positive number: the least k with number < 2^k.
BitLength(number) == Len(int2ba(number))

\* The wire format C4 states for one non-negative number.
WireFormat(number) ==
    IF LessThanPow2(number, SMALL_NUMBER_BITS)
    THEN <<1>> \o int2baLength(number, SMALL_NUMBER_BITS)
    ELSE LET logn    == BitLength(number)
             loglogn == Len(NatToBits(logn))
         IN  Zeros(loglogn) \o Format(logn, loglogn) \o int2ba(number)

RECURSIVE WireFormats(_)
WireFormats(numbers) ==
    IF numbers = <<>> THEN <<>>
    ELSE WireFormat(Head(numbers)) \o WireFormats(Tail(numbers))

\* C4: encode_number appends exactly the stated wire format and leaves the
\* bits already in the buffer unchanged: while only encode_number has run, the
\* buffer is the concatenation of the wire formats of the numbers encoded, and
\* a large number's code has 2*loglogn + logn bits.
C4_WireFormat ==
    pc = "encode_number" =>
        /\ bit_data = WireFormats(sent)
        /\ \A k \in 1..Len(sent) :
              ~LessThanPow2(sent[k], SMALL_NUMBER_BITS) =>
                  LET logn == BitLength(sent[k])
                  IN  Len(EncodedNumber(sent[k]))
                          = 2 * Len(NatToBits(logn)) + logn

\* The number of bits the code at the head of a non-empty buffer needs by its
\* own fields: 1 + S for a small code, 2*loglogn + logn for a large one (more
\* than there are when the buffer ends before the logn field does).
RequiredBits(buf) ==
    IF buf[1] = 1 THEN 1 + SMALL_NUMBER_BITS
    ELSE LET loglogn == Find1(buf)
         IN  IF loglogn = -1 \/ Len(buf) < 2 * loglogn THEN Len(buf) + 1
             ELSE 2 * loglogn + BitsToNat(SubSeq(buf, loglogn + 1, 2 * loglogn))

\* C8 (decode_number): a call on a non-empty buffer that holds fewer bits
\* than its code needs raises an error and returns no value.
C8_ShortStreamFails ==
    (pc \in {"decode_number", "nat_failed"}
        /\ decode_arg # <<>>
        /\ Len(decode_arg) < RequiredBits(decode_arg))
    => pc = "nat_failed"

-----------------------------------------------------------------------------
(* Claims about hashed_lampel_ziv.py, checked under SpecLZ *)

LZFinished == pc \in {"lz_done", "lz_decoded"}

\* C2: for every byte-aligned buffer and all parameters with match_length >= 1
\* and minimum_match_length >= 1, replaying the token list with the decoder
\* (overlapping byte-by-byte copy, then the literal) reproduces the buffer.
C2_LZRoundTrip ==
    pc = "lz_decoded" => output = data

\* A round trip through a copy that overlaps the bytes it writes.
C2_Witness ==
    /\ pc = "lz_decoded"
    /\ output = data
    /\ \E t \in 1..Len(result) : result[t][2] >= 2 /\ result[t][1] < result[t][2]

\* C5: the final byte of a non-empty buffer is never covered by a matched
\* run: every token starting at i has i + length <= byte_count - 1, and the
\* literal of the last token is the buffer's last byte.
C5_TailLiteral ==
    /\ \A t \in 1..Len(result) :
          starts[t] + result[t][2] <= ByteCount(data) - 1
    /\ (LZFinished /\ ByteCount(data) >= 1) =>
          /\ result # <<>>
          /\ result[Len(result)][3] = ByteAt(data, ByteCount(data) - 1)

\* The last match stopped short of the final byte although that byte repeats
\* the candidate's next byte and match_length allowed a longer run.
C5_Witness ==
    /\ LZFinished
    /\ result # <<>>
    /\ LET last == result[Len(result)]
           pos  == starts[Len(result)]
       IN  /\ last[2] >= 1
           /\ last[2] < match_length
           /\ pos + last[2] = ByteCount(data) - 1
           /\ ByteAt(data, pos - last[1] + last[2]) = ByteAt(data, pos + last[2])
           /\ last[3] = ByteAt(data, ByteCount(data) - 1)

SetMax(S) == CHOOSE x \in S : \A y \in S : y <= x
SetMin(S) == CHOOSE x \in S : \A y \in S : x <= y

\* For token t: the places in the scanned list that hold an in-window
\* candidate, the greatest run length among them, and the places that reach it.
InWindowPlaces(t) ==
    {k \in 1..Len(scans[t]) : InWindow(starts[t], scans[t][k], search_length)}

RunAt(t, k) == RunLength(data, starts[t], scans[t][k], match_length)

MaxRun(t) == SetMax({RunAt(t, k) : k \in InWindowPlaces(t)})

TiedPlaces(t) == {k \in InWindowPlaces(t) : RunAt(t, k) = MaxRun(t)}

SeveralTied(t) ==
    /\ InWindowPlaces(t) # {}
    /\ Cardinality({scans[t][k] : k \in TiedPlaces(t)}) >= 2

\* The token's offset is that of the tied candidate registered earliest, which
\* is the smallest tied position, so the offset is the largest among the ties.
EarliestTiedWins(t) ==
    LET first == scans[t][SetMin(TiedPlaces(t))]
    IN  /\ result[t][1] = starts[t] - first
        /\ result[t][2] = MaxRun(t)
        /\ first = SetMin({scans[t][k] : k \in TiedPlaces(t)})
        /\ \A k \in TiedPlaces(t) : result[t][1] >= starts[t] - scans[t][k]

\* C6 as stated: whenever several in-window candidates reach the same maximal
\* run length, the emitted offset is i - j for the earliest registered one.
C6_TieBreakAsStated ==
    \A t \in 1..Len(result) : SeveralTied(t) => EarliestTiedWins(t)

\* C6, amended: ... whenever several in-window candidates reach the same
\* maximal run length of at least one byte, the emitted offset is i - j for
\* the earliest registered one (the smallest such j, the largest offset); when
\* the maximal run length is 0 no candidate is selected and the token is
\* (0, 0, literal).
C6_TieBreak ==
    \A t \in 1..Len(result) :
        SeveralTied(t) =>
            IF MaxRun(t) >= 1
            THEN EarliestTiedWins(t)
            ELSE result[t][1] = 0 /\ result[t][2] = 0

\* A step at which two different candidates tie on a run of at least one byte.
C6_Witness ==
    \E t \in 1..Len(result) :
        SeveralTied(t) /\ MaxRun(t) >= 1 /\ EarliestTiedWins(t)

-----------------------------------------------------------------------------
(* Claims about huffman_coding.py, checked under SpecHuff *)

\* huffman_decode was called on the frame exactly as huffman_encode returned it
\* (or huffman_encode raised), and the call is over.
HuffFinished == cuts = 0 /\ pc \in {"huff_done", "huff_failed"}

\* C1: for every bit buffer X (empty, and of a length that is no multiple of
\* 8 or of symbol_bits, included) and every symbol_bits >= 1,
\* huffman_decode(huffman_encode(X, symbol_bits)) = X.
C1_HuffmanRoundTrip ==
    HuffFinished => (pc = "huff_done" /\ decoded = data)

\* What does hold of the round trip: a buffer of whole bytes and whole
\* symbols comes back when symbol_bits fits its field.
HuffmanRoundTripAligned ==
    (HuffFinished
        /\ symbol_bits < 2 ^ SYMBOL_BITS_FIELD
        /\ Len(data) % 8 = 0
        /\ Len(data) % symbol_bits = 0)
    => (pc = "huff_done" /\ decoded = data)

\* huffman_encode raised: no frame was returned
EncodeRaised == pc = "huff_failed" /\ compressed_data = <<>>

\* C7: huffman_encode raises and returns no frame whenever symbol_bits >= 2^6,
\* the serialized tree has 2^16 bits or more, or the original length is 2^17
\* bytes or more; so every frame it returns has a symbol_bits field of exactly
\* 6 bits, a tree_size field of exactly 16 bits and an original_length field
\* of exactly 17 bits.
C7_CapacityErrors ==
    (pc # "huffman_encode" /\ data # <<>>) =>
        LET tree_size    == Len(serialize_tree(tree_root, symbol_bits))
            length_bytes == Len(data) \div 8
            tree_start   == SYMBOL_BITS_FIELD + TREE_SIZE_FIELD_BITS
            tree_end     == tree_start + tree_size
        IN  /\ (\/ symbol_bits >= 2 ^ SYMBOL_BITS_FIELD
                \/ tree_size >= 2 ^ TREE_SIZE_FIELD_BITS
                \/ length_bytes >= 2 ^ LENGTH_FIELD_BITS) => EncodeRaised
            /\ (cuts = 0 /\ ~EncodeRaised) =>
                  /\ Slice(compressed_data, 0, SYMBOL_BITS_FIELD)
                         = Format(symbol_bits, SYMBOL_BITS_FIELD)
                  /\ Slice(compressed_data, SYMBOL_BITS_FIELD, tree_start)
                         = Format(tree_size, TREE_SIZE_FIELD_BITS)
                  /\ Slice(compressed_data, tree_end, tree_end + LENGTH_FIELD_BITS)
                         = Format(length_bytes, LENGTH_FIELD_BITS)

\* The input is m >= 1 copies of one symbol, in whole bytes and whole symbols.
SingleSymbolInput ==
    /\ data # <<>>
    /\ Len(data) % symbol_bits = 0
    /\ Len(data) % 8 = 0
    /\ Len(build_frequency_table(data, symbol_bits)) = 1

\* The single leaf, the code table {symbol: "0"}, the payload of one bit per
\* symbol and the round trip.
SingleSymbolFrame ==
    LET symbol == build_frequency_table(data, symbol_bits)[1][1]
        m      == Len(data) \div symbol_bits
        header == SYMBOL_BITS_FIELD + TREE_SIZE_FIELD_BITS
                      + Len(serialize_tree(tree_root, symbol_bits))
                      + LENGTH_FIELD_BITS
    IN  /\ tree_root = Some(HuffmanNode(Some(symbol), m, None, None))
        /\ DOMAIN codes = {symbol}
        /\ codes[symbol] = <<0>>
        /\ Len(compressed_data) - header = m
        /\ pc = "huff_done"
        /\ decoded = data

\* C9: for an input of m >= 1 copies of one symbol (length a multiple of
\* symbol_bits and of 8) the tree is that symbol's single leaf, the code table
\* is {symbol: "0"}, the payload has exactly m bits, and huffman_decode
\* returns the input.
C9_SingleSymbol ==
    (HuffFinished /\ SingleSymbolInput) => SingleSymbolFrame

\* What does hold of the single-symbol input: all of the above when
\* symbol_bits fits its field.
SingleSymbolWithinCapacity ==
    (HuffFinished /\ SingleSymbolInput /\ symbol_bits < 2 ^ SYMBOL_BITS_FIELD)
        => SingleSymbolFrame

\* build_huffman_tree ran on a frequency table with exactly one symbol.
SingleSymbolTable ==
    /\ tree_root # None
    /\ Len(build_frequency_table(data, symbol_bits)) = 1

-----------------------------------------------------------------------------
(* Claims about the decoding of a frame followed by more bits, checked     *)
(* under SpecHuffPad                                                       *)

\* huffman_decode(F) for the frame F that huffman_encode returned
DecodedAlone == HuffmanDecode(HuffmanEncode(data, symbol_bits).frame)

\* C11: for every frame F = huffman_encode(X, symbol_bits) of a non-empty
\* byte-aligned X and every bit string T, huffman_decode(F ++ T) equals
\* huffman_decode(F), and no error is raised: the bits after the original
\* length are discarded.
C11_TrailingBitsIgnored ==
    (pc \in {"huff_done", "huff_failed"} /\ trailing # <<>>) =>
        /\ pc = "huff_done"
        /\ DecodedAlone.raised = "none"
        /\ decoded = DecodedAlone.value

\* What does hold of the trailing bits: they are ignored when symbol_bits
\* fits its field.
TrailingBitsIgnoredWithinCapacity ==
    symbol_bits < 2 ^ SYMBOL_BITS_FIELD => C11_TrailingBitsIgnored

-----------------------------------------------------------------------------
(* Claims about the tree functions, checked under SpecTree *)

\* The tree without its frequencies: its shape and its leaf symbols.
RECURSIVE Unweighted(_)
Unweighted(node) ==
    HuffmanNode(node.symbol, 0,
                IF node.left = None THEN None ELSE Some(Unweighted(node.left[1])),
                IF node.right = None THEN None ELSE Some(Unweighted(node.right[1])))

\* C12: for every tree t built by build_huffman_tree from a frequency table
\* with at least one symbol, every symbol below 2^symbol_bits (symbol_bits
\* being a symbol width, at least 1), deserialize_tree(serialize_tree(t, sb),
\* sb) returns a tree of the same shape with the same leaf symbols, hence the
\* same code table, and a consumed-bit count of len(serialize_tree(t, sb)).
C12_TreeRoundTrip ==
    pc = "tree_done" =>
        /\ deserialized.raised = "none"
        /\ deserialized.node # None
        /\ deserialized.node[1] = Unweighted(tree_root[1])
        /\ generate_huffman_codes(deserialized.node) = codes
        /\ deserialized.pos = Len(serialized)

\* A tree of three leaves, one of them with a symbol that needs its zero
\* padding, came back.
C12_Witness ==
    /\ pc = "tree_done"
    /\ Len(input_table) = 3
    /\ \E k \in 1..3 : input_table[k][1] = PyInt(1)
    /\ symbol_bits = DefaultSymbolBits
    /\ deserialized.node # None
    /\ deserialized.node[1] = Unweighted(tree_root[1])
    /\ ~IsLeaf(tree_root[1])

\* a is a prefix of b, or equal to it
IsPrefix(a, b) == Len(a) <= Len(b) /\ SubSeq(b, 1, Len(a)) = a

TableSymbols == {input_table[k][1] : k \in 1..Len(input_table)}

\* C17: for every frequency table with at least two symbols, the code table
\* of generate_huffman_codes(build_huffman_tree(table)) gives every symbol of
\* the table a non-empty codeword, and no symbol's codeword is a prefix of,
\* or equal to, another symbol's codeword.
C17_PrefixFree ==
    (pc # "build_huffman_tree" /\ Len(input_table) >= 2) =>
        /\ DOMAIN codes = TableSymbols
        /\ \A s \in TableSymbols : codes[s] # <<>>
        /\ \A s, t \in TableSymbols :
              s # t => ~IsPrefix(codes[s], codes[t])

\* The code table of three symbols of equal frequency: codewords of two
\* lengths.
C17_Witness ==
    /\ pc # "build_huffman_tree"
    /\ Len(input_table) = 3
    /\ \A k \in 1..3 : input_table[k][2] = 1
    /\ DOMAIN codes = TableSymbols
    /\ \E s, t \in TableSymbols : Len(codes[s]) = 1 /\ Len(codes[t]) = 2

-----------------------------------------------------------------------------
(* More claims about hashed_lampel_ziv.py, checked under SpecLZ *)

\* The earlier positions of the window whose k-gram equals the k-gram at pos,
\* registered or not.
EarlierPlaces(pos) ==
    {j \in 0..(pos - 1) :
        /\ j >= pos - search_length
        /\ KGram(data, j, minimum_match_length)
               = KGram(data, pos, minimum_match_length)}

\* The greatest run length over all of them, 0 when there is none.
LongestRun(pos) ==
    SetMax({RunLength(data, pos, j, match_length) : j \in EarlierPlaces(pos)}
               \cup {0})

\* C13: at every step i where at least minimum_match_length bytes remain, the
\* emitted length is the greatest run length (capped at match_length and at
\* byte_count - 1 - i) over all earlier positions j with
\* i - search_length <= j < i whose k-gram equals the k-gram at i.
C13_LongestMatch ==
    \A t \in 1..Len(result) :
        starts[t] + minimum_match_length <= ByteCount(data)
            => result[t][2] = LongestRun(starts[t])

\* C14: for all inputs and parameters with match_length >=
\* minimum_match_length, every emitted token with length > 0 has
\* length >= minimum_match_length.
C14_MinimumLength ==
    match_length >= minimum_match_length =>
        \A t \in 1..Len(result) :
            result[t][2] > 0 => result[t][2] >= minimum_match_length

\* start_0 = 0 and start_{t+1} = start_t + length_t + 1
RECURSIVE TokenStart(_)
TokenStart(t) ==
    IF t = 1 THEN 0 ELSE TokenStart(t - 1) + result[t - 1][2] + 1

\* the sum of (length + 1) over the first n tokens
RECURSIVE Covered(_)
Covered(n) == IF n = 0 THEN 0 ELSE Covered(n - 1) + result[n][2] + 1

\* C15: the tokens tile the input exactly: token t is emitted at start_t,
\* its literal is the full 8-bit byte at start_t + length_t, the last
\* start + length + 1 is byte_count, so the sum of (length + 1) over all
\* tokens is byte_count and the loop does not overshoot; an empty input
\* yields the empty token list.
C15_TokensTile ==
    /\ \A t \in 1..Len(result) :
          /\ starts[t] = TokenStart(t)
          /\ Len(result[t][3]) = 8
          /\ result[t][3] = SubSeq(data, 8 * (TokenStart(t) + result[t][2]) + 1,
                                   8 * (TokenStart(t) + result[t][2]) + 8)
    /\ i = Covered(Len(result))
    /\ i <= ByteCount(data)
    /\ LZFinished =>
          /\ Covered(Len(result)) = ByteCount(data)
          /\ result # <<>> =>
                TokenStart(Len(result)) + result[Len(result)][2] + 1 = ByteCount(data)
          /\ data = <<>> => result = <<>>

\* A finished run of literals and matches: at least three tokens, one of
\* them a match of two bytes or more.
C15_Witness ==
    /\ LZFinished
    /\ Len(result) >= 3
    /\ \E t \in 1..Len(result) : result[t][2] >= 2
    /\ \E t \in 1..Len(result) : result[t][2] = 0
    /\ Covered(Len(result)) = ByteCount(data)

\* C16: every token emitted at start position i is (0, 0, literal) or has
\* 1 <= offset <= min(search_length, i) and 1 <= length <= match_length; so
\* offset and length are zero together, and the back-reference never points
\* before the start of the buffer.
C16_TokenRange ==
    \A t \in 1..Len(result) :
        \/ result[t][1] = 0 /\ result[t][2] = 0
        \/ /\ 1 <= result[t][1]
           /\ result[t][1] <= Min(search_length, starts[t])
           /\ 1 <= result[t][2]
           /\ result[t][2] <= match_length
           /\ starts[t] - result[t][1] >= 0

\* A match at the far edge of the window while older copies of the same
\* k-gram lie before the window.
C16_Witness ==
    \E t \in 1..Len(result) :
        /\ result[t][1] = search_length
        /\ result[t][2] >= 1
        /\ starts[t] > search_length
        /\ \E k \in 1..Len(scans[t]) : scans[t][k] < starts[t] - search_length

====
